---- MODULE Spec2Model ----
(***************************************************************************)
(* Gesture-controlled display: the App component's mode state machine      *)
(* (handleHandUpdate, handlePhotoUpload) together with the React plumbing  *)
(* that decides which values a handler reads: state updates are queued,    *)
(* a render captures the state into fresh closures, and HandController's   *)
(* passive effect stores the fresh pose callback in onHandUpdateRef.        *)
(***************************************************************************)
EXTENDS Integers, Naturals, Sequences, FiniteSets, TLC

\* ---------------------------------------------------------------- bounds
\* Stand-in for Date.now() at the start of the session (milliseconds).
\* Date.now() counts from 1970, so it is far above DebounceMs when App mounts.
EpochNow == 1000
\* The wall clock is followed for this many milliseconds after EpochNow.
MaxElapsed == 1000
\* At most this many photos are held in the photos state.
MaxPhotos == 2
\* At most this many files come with one change event.
MaxFiles == 2

\* No two landmarks of a synthetic hand are further apart than this many units.
MaxLength == 40

\* The steps by which the wall clock advances between two events.
Deltas == {250, 500}

\* ------------------------------------------------------- program constants
\* src/types.ts AppState
TREE == "TREE"
SCATTERED == "SCATTERED"
ZOOM == "ZOOM"
AppState == {TREE, SCATTERED, ZOOM}

\* src/types.ts GestureType
NONE == "NONE"
FIST == "FIST"
OPEN_HAND == "OPEN_HAND"
PINCH == "PINCH"
GestureType == {NONE, FIST, OPEN_HAND, PINCH}

\* `if (timeSinceChange < 500) return;`
DebounceMs == 500

\* The HandData of App's useState initialiser and of processResults before a
\* hand is looked at: gesture NONE, x = y = 0.5, tiltX = tiltY = 0.  x and y
\* are held in units of 1/120 (a third of the 1/40 grid of the 2D landmarks,
\* because the palm centre is a mean of three points), tilts in units of 1/40.
HalfScreen == 60
DefaultHandData ==
    [gesture |-> NONE, x |-> HalfScreen, y |-> HalfScreen,
     tiltX |-> 0, tiltY |-> 0]

\* e.target.files when the event target carries no FileList (the null of
\* `FileList | null`).
NoFileList == -1

\* The outcome of one pass through the state machine logic that calls
\* neither setAppState nor writes lastStateChange.current.
NoTransition == "NoTransition"

VARIABLES
    appState,         \* useState<AppState>: the latest value given to setAppState
    photos,           \* useState<PhotoData[]>: photos.length of the latest queued list
    handData,         \* useState<HandData>: the latest pose delivered
    lastStateChange,  \* useRef<number>: lastStateChange.current
    now,              \* Date.now()
    rendered,         \* appState / photos.length captured by the closures of the last render
    handlerRef,       \* appState / photos.length captured by onHandUpdateRef.current
    nudged,           \* history: an upload of photos has already set SCATTERED from TREE
    modeChangedAt,    \* history: Date.now() when appState last took a different value
    ev                \* history: the last handler call, what it read and what it found

appVars == <<appState, photos, handData, lastStateChange, now, rendered,
             handlerRef, nudged, modeChangedAt, ev>>

\* ------------------------------------------- faulty variants of the logic
\* The FIST rule placed behind the debounce gate.
StateMachineFistDebounced(gesture, seenState, seenPhotos, timeSinceChange) ==
    IF timeSinceChange < DebounceMs THEN NoTransition
    ELSE IF gesture = FIST /\ seenState # TREE THEN TREE
    ELSE IF gesture = OPEN_HAND /\ seenState = TREE THEN SCATTERED
    ELSE IF gesture = PINCH /\ seenState = SCATTERED
         THEN (IF seenPhotos > 0 THEN ZOOM ELSE NoTransition)
    ELSE IF gesture = OPEN_HAND /\ seenState = ZOOM THEN SCATTERED
    ELSE NoTransition

\* The debounce gate left out.
StateMachineNoDebounce(gesture, seenState, seenPhotos, timeSinceChange) ==
    IF gesture = FIST /\ seenState # TREE THEN TREE
    ELSE IF gesture = OPEN_HAND /\ seenState = TREE THEN SCATTERED
    ELSE IF gesture = PINCH /\ seenState = SCATTERED
         THEN (IF seenPhotos > 0 THEN ZOOM ELSE NoTransition)
    ELSE IF gesture = OPEN_HAND /\ seenState = ZOOM THEN SCATTERED
    ELSE NoTransition

\* The PINCH rule without its photos.length test.
StateMachineNoPhotoTest(gesture, seenState, seenPhotos, timeSinceChange) ==
    IF gesture = FIST /\ seenState # TREE THEN TREE
    ELSE IF timeSinceChange < DebounceMs THEN NoTransition
    ELSE IF gesture = OPEN_HAND /\ seenState = TREE THEN SCATTERED
    ELSE IF gesture = PINCH /\ seenState = SCATTERED THEN ZOOM
    ELSE IF gesture = OPEN_HAND /\ seenState = ZOOM THEN SCATTERED
    ELSE NoTransition

\* The debounce gate written with <= instead of <.
StateMachineGateInclusive(gesture, seenState, seenPhotos, timeSinceChange) ==
    IF gesture = FIST /\ seenState # TREE THEN TREE
    ELSE IF timeSinceChange <= DebounceMs THEN NoTransition
    ELSE IF gesture = OPEN_HAND /\ seenState = TREE THEN SCATTERED
    ELSE IF gesture = PINCH /\ seenState = SCATTERED
         THEN (IF seenPhotos > 0 THEN ZOOM ELSE NoTransition)
    ELSE IF gesture = OPEN_HAND /\ seenState = ZOOM THEN SCATTERED
    ELSE NoTransition

\* OPEN_HAND in ZOOM going back to TREE.
StateMachineZoomToTree(gesture, seenState, seenPhotos, timeSinceChange) ==
    IF gesture = FIST /\ seenState # TREE THEN TREE
    ELSE IF timeSinceChange < DebounceMs THEN NoTransition
    ELSE IF gesture = OPEN_HAND /\ seenState = TREE THEN SCATTERED
    ELSE IF gesture = PINCH /\ seenState = SCATTERED
         THEN (IF seenPhotos > 0 THEN ZOOM ELSE NoTransition)
    ELSE IF gesture = OPEN_HAND /\ seenState = ZOOM THEN TREE
    ELSE NoTransition

\* The FIST rule without its `appState !== AppState.TREE` test.
StateMachineFistAlways(gesture, seenState, seenPhotos, timeSinceChange) ==
    IF gesture = FIST THEN TREE
    ELSE IF timeSinceChange < DebounceMs THEN NoTransition
    ELSE IF gesture = OPEN_HAND /\ seenState = TREE THEN SCATTERED
    ELSE IF gesture = PINCH /\ seenState = SCATTERED
         THEN (IF seenPhotos > 0 THEN ZOOM ELSE NoTransition)
    ELSE IF gesture = OPEN_HAND /\ seenState = ZOOM THEN SCATTERED
    ELSE NoTransition

\* The PINCH rule without its `appState === AppState.SCATTERED` test.
StateMachinePinchAnywhere(gesture, seenState, seenPhotos, timeSinceChange) ==
    IF gesture = FIST /\ seenState # TREE THEN TREE
    ELSE IF timeSinceChange < DebounceMs THEN NoTransition
    ELSE IF gesture = OPEN_HAND /\ seenState = TREE THEN SCATTERED
    ELSE IF gesture = PINCH
         THEN (IF seenPhotos > 0 THEN ZOOM ELSE NoTransition)
    ELSE IF gesture = OPEN_HAND /\ seenState = ZOOM THEN SCATTERED
    ELSE NoTransition

\* lastStateChange.current = timeSinceChange instead of now.
StampOfElapsed(callNow, timeSinceChange) == timeSinceChange

\* The switch to SCATTERED made only by the first upload that finds TREE.
UploadSwitchesOnce(files, seenState) ==
    files # NoFileList /\ seenState = TREE /\ ~nudged

\* ------------------------------------------------------ handleHandUpdate
\* The STATE MACHINE LOGIC of handleHandUpdate as a function of what the
\* callback reads: the gesture, the appState and photos.length of its closure
\* and timeSinceChange.  The result is the argument of setAppState (in which
\* case lastStateChange.current is set to now as well) or NoTransition.
StateMachine(gesture, seenState, seenPhotos, timeSinceChange) ==
    IF gesture = FIST /\ seenState # TREE THEN TREE
    ELSE IF timeSinceChange < DebounceMs THEN NoTransition
    ELSE IF gesture = OPEN_HAND /\ seenState = TREE THEN SCATTERED
    ELSE IF gesture = PINCH /\ seenState = SCATTERED
         THEN (IF seenPhotos > 0 THEN ZOOM ELSE NoTransition)
    ELSE IF gesture = OPEN_HAND /\ seenState = ZOOM THEN SCATTERED
    ELSE NoTransition

\* The value written to lastStateChange.current by an accepted transition.
StampOf(callNow, timeSinceChange) == callNow

handleHandUpdate(data) ==
    LET gesture == data.gesture
        timeSinceChange == now - lastStateChange
        to == StateMachine(gesture, handlerRef.appState, handlerRef.photos,
                           timeSinceChange)
    IN  /\ handData' = data
        /\ IF to = NoTransition
           THEN UNCHANGED <<appState, lastStateChange>>
           ELSE /\ appState' = to
                /\ lastStateChange' = StampOf(now, timeSinceChange)
        /\ modeChangedAt' = IF to \notin {NoTransition, appState}
                            THEN now ELSE modeChangedAt
        /\ ev' = [op |-> "pose", gesture |-> gesture, files |-> NoFileList,
                  at |-> now, seenState |-> handlerRef.appState,
                  seenPhotos |-> handlerRef.photos,
                  appState0 |-> appState, photos0 |-> photos,
                  last0 |-> lastStateChange, nudged0 |-> nudged,
                  changed0 |-> modeChangedAt]
        /\ UNCHANGED <<photos, now, rendered, handlerRef, nudged>>

\* ------------------------------------------------------ handlePhotoUpload
\* Whether handlePhotoUpload calls setAppState(SCATTERED): files is the
\* length of e.target.files (NoFileList for null), seenState the appState of
\* the handler's closure.
UploadSwitches(files, seenState) ==
    files # NoFileList /\ seenState = TREE

\* photos.length after setPhotos((prev) => [...prev, ...newPhotos]).
Appended(prev, files) ==
    IF files = NoFileList THEN prev ELSE prev + files

handlePhotoUpload(files) ==
    /\ Appended(photos, files) <= MaxPhotos
    /\ photos' = Appended(photos, files)
    /\ IF UploadSwitches(files, rendered.appState)
       THEN appState' = SCATTERED /\ nudged' = (nudged \/ files >= 1)
       ELSE UNCHANGED <<appState, nudged>>
    /\ modeChangedAt' = IF UploadSwitches(files, rendered.appState)
                           /\ appState # SCATTERED
                        THEN now ELSE modeChangedAt
    /\ ev' = [op |-> "upload", gesture |-> NONE, files |-> files,
              at |-> now, seenState |-> rendered.appState,
              seenPhotos |-> 0,
              appState0 |-> appState, photos0 |-> photos,
              last0 |-> lastStateChange, nudged0 |-> nudged,
              changed0 |-> modeChangedAt]
    /\ UNCHANGED <<handData, lastStateChange, now, rendered, handlerRef>>

\* ------------------------------------------------------------ React steps
\* App re-renders: the passive effects of the previous commit are flushed
\* first (onHandUpdateRef.current = onHandUpdate), then the function body runs
\* with the queued state, producing the closures of handleHandUpdate
\* (useCallback, deps [appState, photos.length]) and handlePhotoUpload.
Render ==
    /\ rendered # [appState |-> appState, photos |-> photos]
    /\ handlerRef' = rendered
    /\ rendered' = [appState |-> appState, photos |-> photos]
    /\ UNCHANGED <<appState, photos, handData, lastStateChange, now, nudged,
                   modeChangedAt, ev>>

\* HandController's effect: onHandUpdateRef.current = onHandUpdate.
RefreshRef ==
    /\ handlerRef # rendered
    /\ handlerRef' = rendered
    /\ UNCHANGED <<appState, photos, handData, lastStateChange, now, rendered,
                   nudged, modeChangedAt, ev>>

\* React has nothing left to do: the queued state is rendered and the
\* passive effect of that render has run.
Quiescent ==
    /\ rendered = [appState |-> appState, photos |-> photos]
    /\ handlerRef = rendered

\* Wall-clock time passes by one step of the clock grid.  A queued update is
\* rendered and its passive effect flushed within a few animation frames,
\* far inside the smallest step of Deltas, so a step of the grid finds React
\* quiescent; the lag of the closures is a lag between events of one instant.
Tick(d) ==
    /\ Quiescent
    /\ now + d <= EpochNow + MaxElapsed
    /\ now' = now + d
    /\ UNCHANGED <<appState, photos, handData, lastStateChange, rendered,
                   handlerRef, nudged, modeChangedAt, ev>>

\* ======================================================== HandController
\* ---------------------------------------------------------- landmark data
\* The landmark indices processResults reads: 0 wrist, 4 thumb tip, 5 index
\* base, 8/12/16/20 finger tips, 17 pinky base.
WRIST == 0
THUMB_TIP == 4
INDEX_MCP == 5
INDEX_TIP == 8
MIDDLE_TIP == 12
RING_TIP == 16
PINKY_MCP == 17
PINKY_TIP == 20
Indexed == {WRIST, THUMB_TIP, INDEX_MCP, INDEX_TIP, MIDDLE_TIP, RING_TIP,
            PINKY_MCP, PINKY_TIP}

\* Thresholds of the gesture decision.  World landmarks are held in units of
\* 5 mm (0.085 m = 17, 0.035 m = 7, 0.11 m = 22), screen landmarks in units of
\* 1/40 of the frame (0.3 = 12, 0.05 = 2, 0.4 = 16).
FIST_3D == 17
PINCH_3D == 7
OPEN_3D == 22
FIST_2D == 12
PINCH_2D == 2
OPEN_2D == 16

\* Math.sqrt on the squared distances of the synthetic hands, all of which
\* are squares of a length of at most MaxLength units.
Sqrt(n) == CHOOSE r \in 0..MaxLength : r * r = n

\* dist3D / dist2D helpers of processResults.
dist3D(p1, p2) ==
    Sqrt((p1.x - p2.x) * (p1.x - p2.x) + (p1.y - p2.y) * (p1.y - p2.y)
         + (p1.z - p2.z) * (p1.z - p2.z))
dist2D(p1, p2) ==
    Sqrt((p1.x - p2.x) * (p1.x - p2.x) + (p1.y - p2.y) * (p1.y - p2.y))

\* ---- faulty variants of the gesture decision
\* The pinch test made before the fist test.
Gesture3DPinchFirst(sumDistToWrist, pinchDist) ==
    IF pinchDist < PINCH_3D THEN PINCH
    ELSE IF sumDistToWrist < 4 * FIST_3D THEN FIST
    ELSE IF sumDistToWrist > 4 * OPEN_3D THEN OPEN_HAND
    ELSE NONE

\* The world landmarks never used.
UseWorldNever(results) == FALSE

\* The world landmarks looked at before the screen landmarks.
HandDetectedInWorld(results) ==
    Len(results.landmarks) > 0 \/ Len(results.worldLandmarks) > 0

\* ---- the gesture decision
\* `avgDistToWrist < t` with avgDistToWrist = sum / 4 is tested as
\* sum < 4 * t, which is the same comparison without the division.
Gesture3D(sumDistToWrist, pinchDist) ==
    IF sumDistToWrist < 4 * FIST_3D THEN FIST
    ELSE IF pinchDist < PINCH_3D THEN PINCH
    ELSE IF sumDistToWrist > 4 * OPEN_3D THEN OPEN_HAND
    ELSE NONE

Gesture2D(sumDistToWrist, pinchDist) ==
    IF sumDistToWrist < 4 * FIST_2D THEN FIST
    ELSE IF pinchDist < PINCH_2D THEN PINCH
    ELSE IF sumDistToWrist > 4 * OPEN_2D THEN OPEN_HAND
    ELSE NONE

\* `results.landmarks && results.landmarks.length > 0`
HandDetected(results) == Len(results.landmarks) > 0

\* `results.worldLandmarks && results.worldLandmarks.length > 0`
UseWorld(results) == Len(results.worldLandmarks) > 0

\* Reading a property of an absent landmark (landmarks[i] undefined) throws
\* a TypeError; processResults then builds no HandData.
Throws == << >>

\* processResults up to its two setter calls: the one HandData it builds, as
\* a one-element sequence, or Throws.  A landmark list is a function from the
\* indices it holds to points.
processResults(results) ==
    IF ~HandDetected(results) THEN <<DefaultHandData>>
    ELSE
      LET landmarks == IF Len(results.landmarks) > 0
                       THEN results.landmarks[1] ELSE << >>
      IN
      IF ~({WRIST, INDEX_MCP, PINKY_MCP} \subseteq DOMAIN landmarks)
      THEN Throws
      ELSE
        LET wrist == landmarks[WRIST]
            indexMCP == landmarks[INDEX_MCP]
            pinkyMCP == landmarks[PINKY_MCP]
            x == 3 * 40 - (wrist.x + indexMCP.x + pinkyMCP.x)
            y == wrist.y + indexMCP.y + pinkyMCP.y
            tiltX == (indexMCP.x - pinkyMCP.x) * 10
            tiltY == (wrist.y - indexMCP.y) * 5
        IN
        IF UseWorld(results)
        THEN
          LET wl == results.worldLandmarks[1] IN
          IF ~({WRIST, THUMB_TIP, INDEX_TIP, MIDDLE_TIP, RING_TIP, PINKY_TIP}
                 \subseteq DOMAIN wl)
          THEN Throws
          ELSE
            LET sumDistToWrist ==
                    dist3D(wl[INDEX_TIP], wl[WRIST])
                  + dist3D(wl[MIDDLE_TIP], wl[WRIST])
                  + dist3D(wl[RING_TIP], wl[WRIST])
                  + dist3D(wl[PINKY_TIP], wl[WRIST])
                pinchDist == dist3D(wl[THUMB_TIP], wl[INDEX_TIP])
            IN << [gesture |-> Gesture3D(sumDistToWrist, pinchDist),
                   x |-> x, y |-> y, tiltX |-> tiltX, tiltY |-> tiltY] >>
        ELSE
          IF ~({THUMB_TIP, INDEX_TIP, MIDDLE_TIP, RING_TIP, PINKY_TIP}
                 \subseteq DOMAIN landmarks)
          THEN Throws
          ELSE
            LET sumDistToWrist ==
                    dist2D(landmarks[INDEX_TIP], wrist)
                  + dist2D(landmarks[MIDDLE_TIP], wrist)
                  + dist2D(landmarks[RING_TIP], wrist)
                  + dist2D(landmarks[PINKY_TIP], wrist)
                pinchDist == dist2D(landmarks[THUMB_TIP], landmarks[INDEX_TIP])
            IN << [gesture |-> Gesture2D(sumDistToWrist, pinchDist),
                   x |-> x, y |-> y, tiltX |-> tiltX, tiltY |-> tiltY] >>

\* ------------------------------------------------- synthetic detector output
\* A hand whose index and middle tips are a from the wrist, whose ring and
\* pinky tips are b from the wrist and whose thumb tip is gap from the index
\* tip; lengths in the units of the landmark list.
Hand2D(a, b, gap) ==
    [i \in Indexed |->
        CASE i = WRIST -> [x |-> 20, y |-> 36]
          [] i = INDEX_MCP -> [x |-> 22, y |-> 30]
          [] i = PINKY_MCP -> [x |-> 17, y |-> 31]
          [] i = THUMB_TIP -> [x |-> 20 - gap, y |-> 36 - a]
          [] i \in {INDEX_TIP, MIDDLE_TIP} -> [x |-> 20, y |-> 36 - a]
          [] OTHER -> [x |-> 20, y |-> 36 - b]]

Hand3D(a, b, gap) ==
    [i \in Indexed |->
        CASE i = WRIST -> [x |-> 0, y |-> 0, z |-> 0]
          [] i = INDEX_MCP -> [x |-> 2, y |-> 6, z |-> 0]
          [] i = PINKY_MCP -> [x |-> -3, y |-> 5, z |-> 0]
          [] i = THUMB_TIP -> [x |-> 0, y |-> a, z |-> gap]
          [] i \in {INDEX_TIP, MIDDLE_TIP} -> [x |-> 0, y |-> a, z |-> 0]
          [] OTHER -> [x |-> 0, y |-> 0, z |-> b]]

\* A landmark list lacking the point i.
Without(lm, i) == [j \in (DOMAIN lm) \ {i} |-> lm[j]]

\* The shapes the detector is given: <<a, b, gap>>.
Shapes2D ==
    {<<a, a, g>> : a \in {12, 14, 16}, g \in {1, 2, 3}}
      \cup {<<10, 12, g>> : g \in {1, 3}} \cup {<<16, 18, g>> : g \in {1, 3}}
Shapes3D ==
    {<<a, a, g>> : a \in {10, 17, 20, 22, 40}, g \in {4, 7, 9}}
      \cup {<<15, 17, g>> : g \in {4, 9}} \cup {<<22, 25, g>> : g \in {4, 9}}
\* Screen shapes paired with a world shape: a closed and an open hand by the
\* 2D thresholds.
PairedShapes2D == {<<10, 12, 3>>, <<16, 18, 3>>}

NoShape == <<0, 0, 0>>


\* One HandLandmarkerResult.  shape2D, shape3D and missing describe how the
\* frame was built (NoShape: no such list; missing: the points left out); the
\* program reads landmarks and worldLandmarks only.
Result(s2, s3, drop2, drop3) ==
    [landmarks |-> IF s2 = NoShape THEN << >>
                   ELSE << IF drop2 = {} THEN Hand2D(s2[1], s2[2], s2[3])
                           ELSE Without(Hand2D(s2[1], s2[2], s2[3]),
                                        CHOOSE i \in drop2 : TRUE) >>,
     worldLandmarks |-> IF s3 = NoShape THEN << >>
                        ELSE << IF drop3 = {} THEN Hand3D(s3[1], s3[2], s3[3])
                                ELSE Without(Hand3D(s3[1], s3[2], s3[3]),
                                             CHOOSE i \in drop3 : TRUE) >>,
     shape2D |-> s2, shape3D |-> s3, missing2D |-> drop2, missing3D |-> drop3]

\* What the history of a call of predict keeps of the detector output:
\* whether each list holds a hand, and how the frame was built.
FrameOf(results) ==
    [hand |-> Len(results.landmarks) > 0,
     world |-> Len(results.worldLandmarks) > 0,
     shape2D |-> results.shape2D, shape3D |-> results.shape3D,
     missing2D |-> results.missing2D, missing3D |-> results.missing3D]

\* Stands for the detector output in the history of a call of predict that
\* did not get as far as processResults.
NoResult == FrameOf(Result(NoShape, NoShape, {}, {}))

NoHandFrames ==
    {Result(NoShape, NoShape, {}, {}), Result(NoShape, <<20, 20, 9>>, {}, {})}
ScreenFrames == {Result(s2, NoShape, {}, {}) : s2 \in Shapes2D}
WorldFrames ==
    {Result(s2, s3, {}, {}) : s2 \in PairedShapes2D, s3 \in Shapes3D}
PartialFrames ==
    {Result(<<16, 18, 3>>, NoShape, {i}, {}) : i \in Indexed}
      \cup {Result(<<16, 18, 3>>, <<22, 25, 9>>, {i}, {}) : i \in Indexed}
      \cup {Result(<<16, 18, 3>>, <<22, 25, 9>>, {}, {i}) : i \in Indexed}

\* The frames fed to the classifier.
Frames == NoHandFrames \cup ScreenFrames \cup WorldFrames \cup PartialFrames

\* ------------------------------------------------- HandController lifecycle
VARIABLES
    isComponentMounted, \* useRef: isComponentMounted.current
    initPc,             \* where initMediaPipe stands
    initError,          \* history: the step whose failure the catch block logged
    handLandmarker,     \* handLandmarkerRef.current is set
    stream,             \* the camera MediaStream: "none", "live" or "stopped"
    srcObject,          \* the video element's srcObject holds the stream
    videoRef,           \* videoRef.current is the video element (not null)
    rafPending,         \* a requestAnimationFrame(predict) callback is scheduled
    isReady,            \* useState: isReady
    debugGesture,       \* useState: debugGesture
    tick                \* history: the last call of predict and the one before

hcVars == <<isComponentMounted, initPc, initError, handLandmarker, stream,
            srcObject, videoRef, rafPending, isReady, debugGesture, tick>>

\* ---- faulty variants
\* The next frame requested inside the try block, after processResults.
ReschedulesOnSuccess(outcome) == outcome # "threw"

\* initMediaPipe without its try/catch ending the function on a failed step.
InitNextIgnoringFailure(step, ok, mounted) ==
    IF ~mounted THEN "returned"
    ELSE CASE step = "resolver" -> "model"
           [] step = "model" -> "camera"
           [] OTHER -> "attached"

\* ---- initMediaPipe
\* Where initMediaPipe goes when the promise it awaits at `step` settles:
\* a rejection lands in the catch block, an unmounted component returns,
\* otherwise the next await (or, after the camera, the loadeddata listener).
InitNext(step, ok, mounted) ==
    IF ~ok THEN "failed"
    ELSE IF ~mounted THEN "returned"
    ELSE CASE step = "resolver" -> "model"
           [] step = "model" -> "camera"
           [] OTHER -> "attached"

\* FilesetResolver.forVisionTasks settles.
InitResolver(ok) ==
    /\ initPc = "resolver"
    /\ initPc' = InitNext("resolver", ok, isComponentMounted)
    /\ initError' = IF ok THEN initError ELSE "resolver"
    /\ UNCHANGED <<isComponentMounted, handLandmarker, stream, srcObject,
                   videoRef, rafPending, isReady, debugGesture, tick>>

\* HandLandmarker.createFromOptions settles.
InitModel(ok) ==
    /\ initPc = "model"
    /\ initPc' = InitNext("model", ok, isComponentMounted)
    /\ initError' = IF ok THEN initError ELSE "model"
    /\ handLandmarker' = (handLandmarker \/ ok)
    /\ UNCHANGED <<isComponentMounted, stream, srcObject, videoRef,
                   rafPending, isReady, debugGesture, tick>>

\* navigator.mediaDevices.getUserMedia settles: an unmounted component stops
\* the tracks; a mounted one hands the stream to the video element, if
\* videoRef.current is there, and listens for loadeddata.
InitCamera(ok) ==
    /\ initPc = "camera"
    /\ initError' = IF ok THEN initError ELSE "camera"
    /\ IF ~ok
       THEN /\ initPc' = InitNext("camera", ok, isComponentMounted)
            /\ UNCHANGED <<stream, srcObject>>
       ELSE IF ~isComponentMounted
       THEN /\ initPc' = InitNext("camera", ok, isComponentMounted)
            /\ stream' = "stopped"
            /\ UNCHANGED srcObject
       ELSE IF videoRef
       THEN /\ initPc' = InitNext("camera", ok, isComponentMounted)
            /\ stream' = "live"
            /\ srcObject' = TRUE
       ELSE /\ initPc' = "returned"
            /\ stream' = "live"
            /\ UNCHANGED srcObject
    /\ UNCHANGED <<isComponentMounted, handLandmarker, videoRef, rafPending,
                   isReady, debugGesture, tick>>

\* ---- predict
\* `requestRef.current = requestAnimationFrame(predict)` is reached whatever
\* the outcome of the try block.
Reschedules(outcome) == TRUE

\* One call of predict: results is what detectForVideo returns, detectOk
\* whether it returns at all, ready whether video.readyState >= 2.
predict(results, ready, detectOk) ==
    LET canDetect == videoRef /\ handLandmarker /\ ready
        out == IF canDetect /\ detectOk THEN processResults(results)
               ELSE Throws
        outcome == IF ~isComponentMounted THEN "returned"
                   ELSE IF ~canDetect THEN "skipped"
                   ELSE IF Len(out) = 0 THEN "threw"
                   ELSE "delivered"
    IN  /\ IF outcome = "delivered"
           THEN /\ debugGesture' = out[1].gesture
                /\ handleHandUpdate(out[1])
           ELSE UNCHANGED <<debugGesture, appVars>>
        /\ rafPending' = IF outcome = "returned" THEN FALSE
                         ELSE Reschedules(outcome)
        /\ tick' = [outcome |-> outcome, prev |-> tick.outcome,
                    processed |-> (canDetect /\ detectOk /\ isComponentMounted),
                    frame |-> IF canDetect /\ detectOk /\ isComponentMounted
                              THEN FrameOf(results) ELSE NoResult,
                    data |-> IF outcome = "delivered" THEN out ELSE Throws]

\* The video's loadeddata event: the listener of initMediaPipe.
LoadedData(results, ready, detectOk) ==
    /\ initPc = "attached"
    /\ stream = "live"
    /\ initPc' = "listening"
    /\ IF isComponentMounted
       THEN /\ isReady' = TRUE
            /\ predict(results, ready, detectOk)
       ELSE UNCHANGED <<isReady, rafPending, debugGesture, tick, appVars>>
    /\ UNCHANGED <<isComponentMounted, initError, handLandmarker, stream,
                   srcObject, videoRef>>

\* The animation frame requested by the previous call of predict arrives.
PredictTick(results, ready, detectOk) ==
    /\ rafPending
    /\ predict(results, ready, detectOk)
    /\ UNCHANGED <<isComponentMounted, initPc, initError, handLandmarker,
                   stream, srcObject, videoRef, isReady>>

\* ---- teardown
\* React removes the video element and sets videoRef.current to null.  React
\* 17 and later do this when the unmount is committed, before the effect's
\* cleanup function runs; React 16 runs the cleanup first.
Unmount ==
    /\ videoRef
    /\ videoRef' = FALSE
    /\ UNCHANGED <<isComponentMounted, initPc, initError, handLandmarker,
                   stream, srcObject, rafPending, isReady, debugGesture, tick,
                   appVars>>

\* The cleanup function of the initialising effect.
Cleanup ==
    /\ isComponentMounted
    /\ isComponentMounted' = FALSE
    /\ rafPending' = FALSE
    /\ stream' = IF videoRef /\ srcObject /\ stream = "live"
                 THEN "stopped" ELSE stream
    /\ UNCHANGED <<initPc, initError, handLandmarker, srcObject, videoRef,
                   isReady, debugGesture, tick, appVars>>

InitHand ==
    /\ isComponentMounted = TRUE
    /\ initPc = "resolver"
    /\ initError = "none"
    /\ handLandmarker = FALSE
    /\ stream = "none"
    /\ srcObject = FALSE
    /\ videoRef = TRUE
    /\ rafPending = FALSE
    /\ isReady = FALSE
    /\ debugGesture = ""
    /\ tick = [outcome |-> "none", prev |-> "none", processed |-> FALSE,
               frame |-> NoResult, data |-> Throws]

\* ============================================================ PhotoCloud
\* activePhotoIndex is the queued value of the state hook; cloudRendered is
\* the last committed render of PhotoCloud (its props appState and
\* photos.length and the activePhotoIndex it rendered with), which is what
\* the closures of useEffect and useFrame read.  effectPending says that the
\* commit changed a dependency of the effect and the effect has not run yet;
\* effectFrom holds the dependencies of the render before that.  pick records
\* the last run of the effect and frame the last run of useFrame.
VARIABLES activePhotoIndex, cloudRendered, effectPending, effectFrom, pick,
          frame

cloudVars == <<activePhotoIndex, cloudRendered, effectPending, effectFrom,
               pick, frame>>

\* const [activePhotoIndex, setActivePhotoIndex] = useState<number>(-1)
NoActivePhoto == -1

\* Opacity targets in tenths (0.1 and 1) and scale targets in tenths (1.5, 8).
DimOpacity == 1
FullOpacity == 10
BaseScale == 15
ZoomScale == 80

\* The dependency list of the effect, [appState, photos.length].
DepsOf(r) == [appState |-> r.appState, photos |-> r.photos]

\* PhotoCloud renders with the given props and the queued activePhotoIndex.
\* React flushes the passive effects of a commit before it renders again;
\* on mount the effect is pending whatever the props.
RenderCloud(props) ==
    /\ ~effectPending
    /\ cloudRendered' = [appState |-> props.appState, photos |-> props.photos,
                         activePhotoIndex |-> activePhotoIndex]
    /\ effectPending' = (DepsOf(props) # DepsOf(cloudRendered))
    /\ effectFrom' = IF DepsOf(props) # DepsOf(cloudRendered)
                     THEN DepsOf(cloudRendered) ELSE effectFrom
    /\ UNCHANGED <<activePhotoIndex, pick, frame>>

\* App re-renders and PhotoCloud, its descendant, with it.
RenderApp ==
    /\ Render
    /\ RenderCloud([appState |-> appState, photos |-> photos])

\* PhotoCloud re-renders alone after setActivePhotoIndex, with the props it
\* last received.
RerenderCloud ==
    /\ cloudRendered.activePhotoIndex # activePhotoIndex
    /\ RenderCloud(DepsOf(cloudRendered))
    /\ UNCHANGED appVars

\* The indices Math.floor(Math.random() * length) can return.
RandomIndex(length) == 0..(length - 1)

\* What the effect may pass to setActivePhotoIndex.
NextIndex(seenState, seenPhotos) ==
    IF seenState = ZOOM /\ seenPhotos > 0
    THEN RandomIndex(seenPhotos)
    ELSE {NoActivePhoto}

\* useEffect(() => {...}, [appState, photos.length])
ActivePhotoEffect ==
    /\ effectPending
    /\ \E nextIndex \in NextIndex(cloudRendered.appState, cloudRendered.photos) :
        /\ activePhotoIndex' = nextIndex
        /\ pick' = [op |-> "effect", from |-> effectFrom,
                    to |-> DepsOf(cloudRendered),
                    before |-> activePhotoIndex, after |-> nextIndex]
    /\ effectPending' = FALSE
    /\ UNCHANGED <<cloudRendered, effectFrom, frame, appVars>>

\* useFrame, per child i.
isZoomed(seenState, seenIndex, i) == seenState = ZOOM /\ seenIndex = i

targetScale(seenState, seenIndex, i) ==
    IF isZoomed(seenState, seenIndex, i) THEN ZoomScale ELSE BaseScale

targetOpacity(seenState, seenIndex, i) ==
    IF seenState = ZOOM /\ ~isZoomed(seenState, seenIndex, i)
    THEN DimOpacity ELSE FullOpacity

\* One animation frame: useFrame runs with the closure of the last commit and
\* sets the targets of every child of the group.
Frame ==
    /\ LET seenState == cloudRendered.appState
           seenIndex == cloudRendered.activePhotoIndex
           children == 0..(cloudRendered.photos - 1)
       IN frame' = [op |-> "frame", mode |-> seenState,
                    children |-> children,
                    zoomed |-> {i \in children :
                                  targetScale(seenState, seenIndex, i) = ZoomScale},
                    opaque |-> {i \in children :
                                  targetOpacity(seenState, seenIndex, i) = FullOpacity},
                    dimmed |-> {i \in children :
                                  targetOpacity(seenState, seenIndex, i) = DimOpacity}]
    /\ UNCHANGED <<activePhotoIndex, cloudRendered, effectPending, effectFrom,
                   pick, appVars>>

\* PhotoCloud has nothing left to do.
CloudQuiescent ==
    /\ ~effectPending
    /\ cloudRendered = [appState |-> appState, photos |-> photos,
                        activePhotoIndex |-> activePhotoIndex]

\* PhotoCloud after its first render, the mount effect not yet run.
InitCloud ==
    /\ activePhotoIndex = NoActivePhoto
    /\ cloudRendered = [appState |-> TREE, photos |-> 0,
                        activePhotoIndex |-> NoActivePhoto]
    /\ effectPending = TRUE
    /\ effectFrom = [appState |-> TREE, photos |-> 0]
    /\ pick = [op |-> "none", from |-> [appState |-> TREE, photos |-> 0],
               to |-> [appState |-> TREE, photos |-> 0],
               before |-> NoActivePhoto, after |-> NoActivePhoto]
    /\ frame = [op |-> "none", mode |-> TREE, children |-> {}, zoomed |-> {},
                opaque |-> {}, dimmed |-> {}]

\* ============================================================= Ornaments
\* One coordinate of one particle.  Positions are in thousandths of a world
\* unit.  Frame times are whole numbers of a quantum of ln(2)/2 seconds, the
\* time in which a damping of rate 2 halves the remaining distance; a rate of
\* 12 halves it six times in a quantum.
\*
\* layout is the pair of positions useMemo generated for the particle;
\* currentPositions is the damped buffer, emitted the position written to the
\* instance matrix, frameTime the elapsed time of the frame clock.  orn
\* records the last run of useFrame and run the frames since the target last
\* changed.
VARIABLES layout, currentPositions, emitted, frameTime, orn, run

ornVars == <<layout, currentPositions, emitted, frameTime, orn, run>>

\* const lambda = isTree ? 12 : 2
LambdaTree == 12
LambdaScatter == 2
\* const noiseAmt = isTree ? 0.02 : 0.2, in thousandths
NoiseTree == 20
NoiseScatter == 200

\* Longest frame and longest run of the frame clock, in quanta.
MaxDelta == 2
MaxFrameTime == 4

\* Tree and scatter position of the particle.
Layouts == {[tree |-> 0, scatter |-> 10240],
            [tree |-> 2560, scatter |-> -5120]}

\* Math.sin and Math.cos of the frame's phase, in tenths.
Waves == {-10, 0, 10}

\* The buffer written with the jitter as well.
StoredWithNoise(damped, noise) == damped + noise

\* Linear interpolation by lambda * dt (0.69 of the distance per quantum and
\* unit of rate 2), clamped at the target.
dampLinear(x, y, lambda, dt) ==
    LET percent == (69 * lambda * dt) \div 2
    IN  IF percent >= 100 THEN y
        ELSE y + ((x - y) * (100 - percent)) \div 100

\* exp(-lambda * dt) as a number of halvings.
HalfLives(lambda, dt) == (lambda * dt) \div 2

\* d * exp(-lambda * dt), cut to the grid.
Decay(d, halfLives) ==
    IF d >= 0 THEN d \div (2 ^ halfLives) ELSE -((-d) \div (2 ^ halfLives))

\* THREE.MathUtils.damp(x, y, lambda, dt) = lerp(x, y, 1 - exp(-lambda * dt))
damp(x, y, lambda, dt) == y + Decay(x - y, HalfLives(lambda, dt))

\* What useFrame writes to currentPositions.current and what it passes to
\* tempObject.position.set.
Stored(damped, noise) == damped
Emitted(current, noise) == current + noise

TargetOf(isTree, positions) ==
    IF isTree THEN positions.tree ELSE positions.scatter
LambdaOf(isTree) == IF isTree THEN LambdaTree ELSE LambdaScatter
NoiseAmtOf(isTree) == IF isTree THEN NoiseTree ELSE NoiseScatter

\* The second useFrame of Ornaments, for the particle: it runs with the
\* appState of the last commit.
OrnFrame(delta, wave) ==
    /\ frameTime + delta <= MaxFrameTime
    /\ LET isTree == rendered.appState = TREE
           target == TargetOf(isTree, layout)
           lambda == LambdaOf(isTree)
           damped == damp(currentPositions, target, lambda, delta)
           noise == (wave * NoiseAmtOf(isTree)) \div 10
       IN /\ currentPositions' = Stored(damped, noise)
          /\ emitted' = Emitted(Stored(damped, noise), noise)
          /\ orn' = [op |-> "frame", mode |-> rendered.appState,
                     prev |-> currentPositions, delta |-> delta,
                     noise |-> noise]
          /\ run' = IF run.frames > 0 /\ run.target = target
                       /\ run.lambda = lambda
                    THEN [run EXCEPT !.elapsed = @ + delta, !.frames = @ + 1]
                    ELSE [start |-> currentPositions, target |-> target,
                          lambda |-> lambda, elapsed |-> delta, frames |-> 1]
    /\ frameTime' = frameTime + delta
    /\ UNCHANGED <<layout, appVars>>

\* const currentPositions = useRef(new Float32Array(positionsTree))
InitOrnWith(positions) ==
    /\ layout = positions
    /\ currentPositions = positions.tree
    /\ emitted = positions.tree
    /\ frameTime = 0
    /\ orn = [op |-> "none", mode |-> TREE, prev |-> positions.tree,
              delta |-> 0, noise |-> 0]
    /\ run = [start |-> positions.tree, target |-> positions.tree,
              lambda |-> LambdaTree, elapsed |-> 0, frames |-> 0]

InitOrn == InitOrnWith([tree |-> 0, scatter |-> 10240])

InitOrnAny == \E positions \in Layouts : InitOrnWith(positions)

\* ===================================================== PhotoCloud damping
\* One coordinate of the position of child 0 of the photo group, in
\* thousandths of a world unit, damped by easing.damp3 of maath, which damps
\* each coordinate with easing.damp: a critically damped spring (SmoothDamp)
\* that keeps a velocity per coordinate.  Times are in hundredths of a second
\* and frames last whole numbers of PhotoQuantum; the velocity is kept in
\* thousandths per PhotoQuantum.
\*
\* photoPos and photoVel are child.position.x and its __damp velocity,
\* photoTime the elapsed time of the frame clock, photoRun the frames since
\* the target or the smooth time last changed.
VARIABLES photoPos, photoVel, photoTime, photoRun

dampVars == <<photoPos, photoVel, photoTime, photoRun>>

\* const smoothTime = isTree ? 0.15 : 0.6
SmoothTree == 15
SmoothScatter == 60
\* eps = 0.001, the default of easing.damp
Eps == 1
\* Frame time grid and longest run of the frame clock.
PhotoQuantum == 30
MaxPhotoTime == 90

\* positions[0] for a collection of the given length: tree.x follows
\* cos(angle) * rTree, scatter.x is a random number drawn when the
\* collection changes.
PhotoPositions(length) ==
    CASE length = 1 -> [tree |-> -3500, scatter |-> 9600]
      [] length = 2 -> [tree |-> 0, scatter |-> -4800]
      [] OTHER -> [tree |-> 2917, scatter |-> 2400]

\* Division rounded toward zero.
Quot(a, b) == IF a >= 0 THEN a \div b ELSE -((-a) \div b)

Abs(a) == IF a >= 0 THEN a ELSE -a

\* omega * delta, omega = 2 / smoothTime
OmegaDelta(smoothTime, delta) == (2 * delta) \div smoothTime

\* exp = t => 1 / (1 + t + 0.48 * t * t + 0.235 * t * t * t), as 1000 / EaseDen
EaseDen(x) == 1000 + 1000 * x + 480 * x * x + 235 * x * x * x

\* easing.damp(current, prop, target, smoothTime, delta): the new value and
\* velocity of the coordinate.
easingDamp(current, velocity, target, smoothTime, delta) ==
    IF Abs(current - target) <= Eps
    THEN [value |-> target, velocity |-> velocity]
    ELSE LET x == OmegaDelta(smoothTime, delta)
             change == current - target
             temp == velocity * (delta \div PhotoQuantum) + x * change
             newVelocity ==
                 Quot((velocity - OmegaDelta(smoothTime, PhotoQuantum) * temp)
                          * 1000, EaseDen(x))
             output == target + Quot((change + temp) * 1000, EaseDen(x))
         IN  IF (target - current > 0) = (output > target)
             THEN [value |-> target, velocity |-> 0]
             ELSE [value |-> output, velocity |-> newVelocity]

\* targetPos.x of child i
TargetPos(seenState, seenIndex, seenPhotos, i) ==
    IF isZoomed(seenState, seenIndex, i) THEN 0
    ELSE IF seenState = TREE THEN PhotoPositions(seenPhotos).tree
         ELSE PhotoPositions(seenPhotos).scatter

SmoothTimeOf(seenState) == IF seenState = TREE THEN SmoothTree ELSE SmoothScatter

\* PhotoCloud.useFrame for child 0, its position: easing.damp3(child.position,
\* targetPos, smoothTime, delta) with the closure of the last commit.
DampPhoto(delta) ==
    /\ cloudRendered.photos > 0
    /\ photoTime + delta <= MaxPhotoTime
    /\ LET target == TargetPos(cloudRendered.appState,
                               cloudRendered.activePhotoIndex,
                               cloudRendered.photos, 0)
           smoothTime == SmoothTimeOf(cloudRendered.appState)
           out == easingDamp(photoPos, photoVel, target, smoothTime, delta)
       IN /\ photoPos' = out.value
          /\ photoVel' = out.velocity
          /\ photoRun' =
                 IF photoRun.frames > 0 /\ photoRun.target = target
                    /\ photoRun.smoothTime = smoothTime
                 THEN [photoRun EXCEPT !.elapsed = @ + delta,
                                       !.frames = @ + 1]
                 ELSE [start |-> photoPos, startVel |-> photoVel,
                       target |-> target, smoothTime |-> smoothTime,
                       elapsed |-> delta, frames |-> 1]
    /\ photoTime' = photoTime + delta
    /\ UNCHANGED <<appVars, cloudVars>>

\* A new Image sits at the origin, at rest.
InitDamp ==
    /\ photoPos = 0
    /\ photoVel = 0
    /\ photoTime = 0
    /\ photoRun = [start |-> 0, startVel |-> 0, target |-> 0,
                   smoothTime |-> SmoothTree, elapsed |-> 0, frames |-> 0]

\* ----------------------------------------------------------- specification
InitApp ==
    /\ appState = TREE
    /\ photos = 0
    /\ handData = DefaultHandData
    /\ lastStateChange = 0
    /\ now = EpochNow
    /\ rendered = [appState |-> TREE, photos |-> 0]
    /\ handlerRef = [appState |-> TREE, photos |-> 0]
    /\ nudged = FALSE
    /\ modeChangedAt = 0
    /\ ev = [op |-> "mount", gesture |-> NONE, files |-> NoFileList,
             at |-> EpochNow, seenState |-> TREE, seenPhotos |-> 0,
             appState0 |-> TREE, photos0 |-> 0, last0 |-> 0,
             nudged0 |-> FALSE, changed0 |-> 0]

PoseStep ==
    \E gesture \in GestureType :
        handleHandUpdate([DefaultHandData EXCEPT !.gesture = gesture])
UploadStep == \E files \in {NoFileList} \cup (0..MaxFiles) : handlePhotoUpload(files)
TickStep == \E d \in Deltas : Tick(d)

vars == <<appVars, hcVars, cloudVars, ornVars, dampVars>>

Init == InitApp /\ InitHand /\ InitCloud /\ InitOrn /\ InitDamp

\* The mode state machine under the wall clock, with poses of every gesture
\* arriving from a running HandController.
Next ==
    /\ PoseStep \/ UploadStep \/ Render \/ RefreshRef \/ TickStep
    /\ UNCHANGED <<hcVars, cloudVars, ornVars, dampVars>>

Spec == Init /\ [][Next]_vars

\* HandController from mount to teardown, delivering its poses to App.
\* The wall clock stands still.
LoopFrames ==
    {Result(NoShape, NoShape, {}, {}),
     Result(<<10, 12, 3>>, <<10, 10, 9>>, {}, {}),
     Result(<<16, 18, 3>>, <<22, 25, 9>>, {}, {}),
     Result(<<10, 12, 3>>, <<20, 20, 4>>, {}, {}),
     Result(<<16, 18, 3>>, <<22, 25, 9>>, {PINKY_MCP}, {})}

InitResolverStep == \E ok \in BOOLEAN : InitResolver(ok) /\ UNCHANGED appVars
InitModelStep == \E ok \in BOOLEAN : InitModel(ok) /\ UNCHANGED appVars
InitCameraStep == \E ok \in BOOLEAN : InitCamera(ok) /\ UNCHANGED appVars
LoadedDataStep ==
    \E results \in LoopFrames, ready \in BOOLEAN, detectOk \in BOOLEAN :
        LoadedData(results, ready, detectOk)
PredictStep ==
    \E results \in LoopFrames, ready \in BOOLEAN, detectOk \in BOOLEAN :
        PredictTick(results, ready, detectOk)
AppStep == (UploadStep \/ Render \/ RefreshRef) /\ UNCHANGED hcVars

NextHand ==
    /\ \/ InitResolverStep \/ InitModelStep \/ InitCameraStep
       \/ LoadedDataStep \/ PredictStep
       \/ Unmount \/ Cleanup
       \/ AppStep
    /\ UNCHANGED <<cloudVars, ornVars, dampVars>>

SpecHand == Init /\ [][NextHand]_vars

\* The classifier on every frame of Frames, the video ready and the detector
\* returning: HandController as it stands when
\* the loadeddata listener has started the loop and the first call of predict
\* found the video not ready.
InitClassify ==
    /\ InitApp
    /\ InitCloud
    /\ InitOrn
    /\ InitDamp
    /\ isComponentMounted = TRUE
    /\ initPc = "listening"
    /\ initError = "none"
    /\ handLandmarker = TRUE
    /\ stream = "live"
    /\ srcObject = TRUE
    /\ videoRef = TRUE
    /\ rafPending = TRUE
    /\ isReady = TRUE
    /\ debugGesture = ""
    /\ tick = [outcome |-> "skipped", prev |-> "none", processed |-> FALSE,
               frame |-> NoResult, data |-> Throws]

ClassifyStep ==
    \E results \in Frames : PredictTick(results, TRUE, TRUE)
RefreshStep == (Render \/ RefreshRef) /\ UNCHANGED hcVars

NextClassify ==
    /\ ClassifyStep \/ RefreshStep
    /\ UNCHANGED <<cloudVars, ornVars, dampVars>>

SpecClassify == InitClassify /\ [][NextClassify]_vars

\* PhotoCloud under App: poses and uploads change the mode and the photos,
\* React commits and flushes effects, and animation frames run in between.
\* Photos are uploaded one at a time, and the wall clock advances by the
\* debounce interval, only when App and PhotoCloud are quiescent.
CloudPoseStep == PoseStep /\ UNCHANGED cloudVars
CloudUploadStep == handlePhotoUpload(1) /\ UNCHANGED cloudVars
CloudTickStep == CloudQuiescent /\ Tick(DebounceMs) /\ UNCHANGED cloudVars
CloudRefreshStep == RefreshRef /\ UNCHANGED cloudVars

NextCloud ==
    /\ \/ CloudPoseStep \/ CloudUploadStep \/ CloudTickStep
       \/ CloudRefreshStep
       \/ RenderApp \/ RerenderCloud \/ ActivePhotoEffect \/ Frame
    /\ UNCHANGED <<hcVars, ornVars, dampVars>>

SpecCloud == Init /\ [][NextCloud]_vars


\* Ornaments under App: FIST and OPEN_HAND poses move the mode between TREE
\* and SCATTERED, the wall clock advances by the debounce interval, and
\* animation frames of every length and phase run in between.
OrnGestures == {FIST, OPEN_HAND}
OrnPoseStep ==
    \E gesture \in OrnGestures :
        handleHandUpdate([DefaultHandData EXCEPT !.gesture = gesture])
        /\ UNCHANGED ornVars
OrnRenderStep == (Render \/ RefreshRef) /\ UNCHANGED ornVars
OrnTickStep == Tick(DebounceMs) /\ UNCHANGED ornVars
OrnFrameStep == \E delta \in 1..MaxDelta, wave \in Waves : OrnFrame(delta, wave)

NextOrn ==
    /\ OrnPoseStep \/ OrnRenderStep \/ OrnTickStep \/ OrnFrameStep
    /\ UNCHANGED <<hcVars, cloudVars, dampVars>>

InitOrnaments ==
    InitApp /\ InitHand /\ InitCloud /\ InitOrnAny /\ InitDamp

SpecOrn == InitOrnaments /\ [][NextOrn]_vars

\* The two damped animations under App: uploads and FIST and OPEN_HAND poses
\* change the photos and the mode, React commits and runs PhotoCloud's
\* effect, and frames of every length damp the particle and the photo.  The
\* wall clock stands still.
DampPoseStep ==
    \E gesture \in OrnGestures :
        handleHandUpdate([DefaultHandData EXCEPT !.gesture = gesture])
        /\ UNCHANGED <<cloudVars, ornVars, dampVars>>
DampUploadStep ==
    handlePhotoUpload(1) /\ UNCHANGED <<cloudVars, ornVars, dampVars>>
DampRenderStep == RenderApp /\ UNCHANGED <<ornVars, dampVars>>
DampRefreshStep == RefreshRef /\ UNCHANGED <<cloudVars, ornVars, dampVars>>
DampEffectStep == ActivePhotoEffect /\ UNCHANGED <<ornVars, dampVars>>
ParticleFrameStep ==
    \E delta \in 1..MaxDelta :
        OrnFrame(delta, 10) /\ UNCHANGED <<cloudVars, dampVars>>
PhotoFrameStep ==
    \E n \in 1..MaxDelta : DampPhoto(n * PhotoQuantum) /\ UNCHANGED ornVars

NextDamp ==
    /\ \/ DampPoseStep \/ DampUploadStep
       \/ DampRenderStep \/ DampRefreshStep \/ DampEffectStep
       \/ ParticleFrameStep \/ PhotoFrameStep
    /\ UNCHANGED hcVars

SpecDamp == Init /\ [][NextDamp]_vars

TypeOK ==
    /\ appState \in AppState
    /\ photos \in 0..(MaxPhotos + 1)
    /\ handData.gesture \in GestureType
    /\ lastStateChange \in Nat
    /\ now \in Nat
    /\ rendered.appState \in AppState
    /\ handlerRef.appState \in AppState
    /\ nudged \in BOOLEAN
\* ------------------------------------------------------------------ claims
\* The mode and photo count of a handler call are the appState and
\* photos.length of the closure that runs (ev.seenState, ev.seenPhotos): they
\* are the values its guards test.  ev.appState0 is the queued state the call
\* found, which the closure may lag behind until the next Render/RefreshRef.
\* What the last call was.
IsPose == ev.op = "pose"
IsUpload == ev.op = "upload" /\ ev.files # NoFileList
\* now - lastStateChange.current as the last call computed it.
Elapsed == ev.at - ev.last0
\* The FIST rule fired in the last call.
FistFired == ev.gesture = FIST /\ ev.seenState # TREE
\* The last call left the mode and the clock as it found them.
Untouched == appState = ev.appState0 /\ lastStateChange = ev.last0
\* The last call set the mode to m and the clock to the call's now.
MovedTo(m) == appState = m /\ lastStateChange = ev.at

\* C1: a pose call with gesture FIST whose mode is SCATTERED or ZOOM ends with
\* mode TREE and lastStateChange equal to the call's now, whatever time has
\* passed since the previous transition.
C1_FistImmediate ==
    (IsPose /\ ev.gesture = FIST /\ ev.seenState \in {SCATTERED, ZOOM})
        => MovedTo(TREE)

\* C1 witness: FIST taken out of ZOOM less than 500 ms after the last stamp.
C1_Witness ==
    /\ IsPose /\ ev.gesture = FIST /\ ev.seenState = ZOOM
    /\ ev.appState0 = ZOOM
    /\ ev.last0 > 0 /\ Elapsed < DebounceMs
    /\ MovedTo(TREE)

\* C2: a pose call in which the FIST rule does not fire and less than 500 ms
\* have passed since lastStateChange leaves mode and lastStateChange as they
\* were; so a second OPEN_HAND within 500 ms of the first changes nothing.
C2_DebounceDiscards ==
    (IsPose /\ ~FistFired /\ Elapsed < DebounceMs) => Untouched

\* C2 witness: OPEN_HAND arriving 250 ms after an accepted transition to
\* SCATTERED, by a callback that still reads TREE, is discarded.
C2_Witness ==
    /\ IsPose /\ ev.gesture = OPEN_HAND /\ ev.seenState = TREE
    /\ ev.appState0 = SCATTERED
    /\ ev.last0 > 0 /\ ev.at > ev.last0 /\ Elapsed < DebounceMs
    /\ Untouched

\* C3: a PINCH call in mode SCATTERED that passes the debounce gate moves to
\* ZOOM and stamps the clock when photos.length > 0, and changes neither mode
\* nor clock when photos.length = 0.
C3_PinchNeedsPhotos ==
    (IsPose /\ ev.gesture = PINCH /\ ev.seenState = SCATTERED
        /\ Elapsed >= DebounceMs)
        => IF ev.seenPhotos > 0 THEN MovedTo(ZOOM) ELSE Untouched

\* C3 witness: PINCH in SCATTERED with the gate open and no photo is ignored.
C3_Witness ==
    /\ IsPose /\ ev.gesture = PINCH /\ ev.seenState = SCATTERED
    /\ ev.appState0 = SCATTERED /\ ev.photos0 = 0 /\ ev.seenPhotos = 0
    /\ Elapsed >= DebounceMs
    /\ Untouched /\ appState = SCATTERED

\* C4: an OPEN_HAND call in mode TREE with now - lastStateChange >= 500 moves
\* to SCATTERED and stamps the clock; while the clock still holds its initial
\* 0 the gate is open for every call.
C4_OpenHandScatters ==
    /\ (IsPose /\ ev.gesture = OPEN_HAND /\ ev.seenState = TREE
           /\ Elapsed >= DebounceMs) => MovedTo(SCATTERED)
    /\ (IsPose /\ ev.last0 = 0) => Elapsed >= DebounceMs

\* C4 witness: the very first pose, at mount time, is OPEN_HAND and scatters.
C4_Witness ==
    /\ IsPose /\ ev.gesture = OPEN_HAND /\ ev.seenState = TREE
    /\ ev.appState0 = TREE /\ ev.last0 = 0 /\ ev.at = EpochNow
    /\ MovedTo(SCATTERED)

\* C5: an OPEN_HAND call in mode ZOOM that passes the debounce gate moves to
\* SCATTERED and stamps the clock.
C5_OpenHandLeavesZoom ==
    (IsPose /\ ev.gesture = OPEN_HAND /\ ev.seenState = ZOOM
        /\ Elapsed >= DebounceMs) => MovedTo(SCATTERED)

\* C5 witness: OPEN_HAND exactly 500 ms after the move into ZOOM.
C5_Witness ==
    /\ IsPose /\ ev.gesture = OPEN_HAND /\ ev.seenState = ZOOM
    /\ ev.appState0 = ZOOM /\ ev.last0 > 0 /\ Elapsed = DebounceMs
    /\ MovedTo(SCATTERED)

\* C6: a pose call matching none of the four rules (NONE in any mode, FIST in
\* TREE, OPEN_HAND in SCATTERED, PINCH in TREE or ZOOM) changes neither mode
\* nor clock, whatever the elapsed time and the photo count.
C6_NoRuleNoChange ==
    (IsPose /\ ( \/ ev.gesture = NONE
                 \/ ev.gesture = FIST /\ ev.seenState = TREE
                 \/ ev.gesture = OPEN_HAND /\ ev.seenState = SCATTERED
                 \/ ev.gesture = PINCH /\ ev.seenState \in {TREE, ZOOM} ))
        => Untouched

\* C6 witness: FIST while already in TREE, gate open, photos present.
C6_Witness ==
    /\ IsPose /\ ev.gesture = FIST /\ ev.seenState = TREE
    /\ ev.appState0 = TREE /\ ev.seenPhotos > 0
    /\ Elapsed >= DebounceMs
    /\ Untouched

\* C7: an upload of at least one photo in mode TREE sets the mode to
\* SCATTERED and grows the photo count by the number of uploaded photos; an
\* upload event carrying zero photos does not change the mode.
C7_UploadNudge ==
    /\ (IsUpload /\ ev.files >= 1 /\ ev.seenState = TREE)
          => (appState = SCATTERED /\ photos = ev.photos0 + ev.files)
    /\ (IsUpload /\ ev.files = 0) => appState = ev.appState0

\* C8 as stated: once an upload of photos has switched the mode to
\* SCATTERED, no later upload of photos changes the mode.
C8_NudgeOnlyOnce ==
    (IsUpload /\ ev.files >= 1 /\ ev.nudged0) => appState = ev.appState0

\* C8 amended: every upload event whose handler finds the mode TREE sets the
\* mode to SCATTERED, also after an earlier upload has done so; an upload
\* whose handler finds another mode leaves the mode alone.
C8_NudgeEveryTime ==
    IsUpload => IF ev.seenState = TREE THEN appState = SCATTERED
                ELSE appState = ev.appState0

\* C8 witness: a second upload of a photo in TREE, after the first one had
\* already switched the mode, switches it again.
C8_Witness ==
    /\ IsUpload /\ ev.files >= 1 /\ ev.nudged0
    /\ ev.seenState = TREE /\ ev.appState0 = TREE
    /\ appState = SCATTERED

\* C9: a pose call changes the mode to SCATTERED or ZOOM only if at least
\* 500 ms have passed since the mode last changed, whether that change came
\* from a pose or from a photo upload.
C9_DebounceAnyOrigin ==
    (IsPose /\ appState # ev.appState0 /\ appState \in {SCATTERED, ZOOM})
        => ev.at - ev.changed0 >= DebounceMs

\* C10: lastStateChange starts at 0 and never decreases (the wall clock of
\* the model never runs backwards).
C10_ClockMonotone ==
    lastStateChange = 0 /\ [][lastStateChange' >= lastStateChange]_vars

\* What the last run of the effect and the last animation frame were.
IsPick == pick.op = "effect"
IsFrame == frame.op = "frame"

\* C11: the active photo selection is mutated only on entry into ZOOM: a run
\* of the effect whose render and the render before it both had mode ZOOM
\* (photos were added while in ZOOM) leaves the selected index as it was.
C11_PickOnlyOnEntry ==
    (IsPick /\ pick.from.appState = ZOOM /\ pick.to.appState = ZOOM)
        => pick.after = pick.before

\* C12: in every animation frame whose mode is ZOOM exactly one photo, a
\* valid index into the collection, gets the zoom target and the full
\* opacity target, and every other photo gets the dim opacity target.
C12_OneZoomedPerFrame ==
    (IsFrame /\ frame.mode = ZOOM)
        => /\ Cardinality(frame.zoomed) = 1
           /\ frame.zoomed \subseteq frame.children
           /\ frame.opaque = frame.zoomed
           /\ frame.dimmed = frame.children \ frame.zoomed


\* C10 witness: the clock has been stamped, and stamped again later.
C10_Witness ==
    /\ IsPose /\ ev.last0 > 0 /\ lastStateChange > ev.last0
\* The edges of the mode graph.
Edges ==
    {<<SCATTERED, TREE>>, <<ZOOM, TREE>>, <<TREE, SCATTERED>>,
     <<SCATTERED, ZOOM>>, <<ZOOM, SCATTERED>>}

Processed == tick.processed
\* The frame of that call shows a hand with every landmark present.
WholeHand ==
    /\ tick.frame.shape2D # NoShape
    /\ tick.frame.missing2D = {} /\ tick.frame.missing3D = {}
\* That call handed a HandData to the state machine.
Delivered == tick.outcome = "delivered"
\* The gesture of the HandData handed over.
DeliveredGesture == tick.data[1].gesture

\* C13: a frame without a detected hand (empty 2D landmark list, with or
\* without world landmarks) delivers gesture NONE, x = y = 0.5 (60/120) and
\* tiltX = tiltY = 0.
C13_NoHandDefault ==
    (Processed /\ ~tick.frame.hand)
        => /\ Delivered
           /\ tick.data[1] = [gesture |-> NONE, x |-> 60, y |-> 60,
                              tiltX |-> 0, tiltY |-> 0]
           /\ handData = tick.data[1]

\* C13 witness: no 2D landmarks but a world landmark list, delivered as the
\* default pose.
C13_Witness ==
    /\ Processed /\ ~tick.frame.hand
    /\ tick.frame.world
    /\ Delivered /\ handData.gesture = NONE /\ handData.x = 60

\* The decision over (mean fingertip distance, pinch distance) with the
\* thresholds lo, pinch, hi, first match wins; twiceMean is twice the mean.
Priority(twiceMean, pinchDist, lo, pinch, hi) ==
    IF twiceMean < 2 * lo THEN FIST
    ELSE IF pinchDist < pinch THEN PINCH
    ELSE IF twiceMean > 2 * hi THEN OPEN_HAND
    ELSE NONE

C15_FallbackOnlyWithoutWorld ==
    (Processed /\ WholeHand)
        => /\ Delivered
           /\ tick.frame.shape3D = NoShape
                => DeliveredGesture =
                     Priority(tick.frame.shape2D[1] + tick.frame.shape2D[2],
                              tick.frame.shape2D[3], 12, 2, 16)
           /\ tick.frame.shape3D # NoShape
                => \A other \in PairedShapes2D :
                     LET same == processResults(
                            Result(other, tick.frame.shape3D, {}, {}))
                     IN  Len(same) = 1 /\ same[1].gesture = DeliveredGesture

\* C15 witness: a 2D-only hand with thumb and index 0.025 apart and a mean
\* fingertip distance of 0.35 is a PINCH.
C15_Witness ==
    /\ Processed /\ WholeHand /\ tick.frame.shape3D = NoShape
    /\ tick.frame.shape2D = <<14, 14, 1>>
    /\ Delivered /\ DeliveredGesture = PINCH

\* C16: a frame that reports a hand with some of the indexed landmarks
\* missing from the 2D or the 3D list still delivers a HandData, with gesture
\* NONE and the default pose.
C16_PartialDegrades ==
    (Processed /\ tick.frame.shape2D # NoShape
       /\ (tick.frame.missing2D # {} \/ tick.frame.missing3D # {}))
        => /\ Delivered
           /\ handData = DefaultHandData
\* ------------------------------------------------ claims: HandController
\* C17: once the loadeddata listener has started the loop, and until the
\* cleanup function has run, a next call of predict is scheduled after every
\* call, whether it delivered, failed or found the video not ready.
C17_LoopStaysAlive ==
    (isReady /\ isComponentMounted) => rafPending

\* C17 witness: a call of predict that delivered a pose right after a call in
\* which detection threw, with the next call scheduled.
C17_Witness ==
    /\ isReady /\ isComponentMounted /\ rafPending
    /\ tick.prev = "threw" /\ tick.outcome = "delivered"
    /\ ev.op = "pose"

\* C18: after the cleanup function has run, whatever initMediaPipe was
\* waiting for at the time, no call of predict is scheduled or delivers, and
\* no camera stream is left live.
C18_TeardownReleases ==
    ~isComponentMounted
        => /\ ~rafPending
           /\ tick.outcome # "returned"
           /\ stream # "live"

\* C19: when initMediaPipe has ended in its catch block (resolver, model or
\* camera failed), the loop has not started and never starts, no HandData has
\* been delivered and handData is still the initial NONE pose.
C19_InitFailureIsQuiet ==
    initError # "none"
        => /\ initPc = "failed"
           /\ ~isReady /\ ~rafPending
           /\ tick.outcome = "none"
           /\ handData = DefaultHandData

\* C19 witness: the camera was refused, and an upload has since switched the
\* mode to SCATTERED.
C19_Witness ==
    /\ initError = "camera" /\ initPc = "failed"
    /\ ev.op = "upload" /\ ev.appState0 = TREE /\ appState = SCATTERED
    /\ handData.gesture = NONE

\* C21: whatever the interleaving of pose callbacks, uploads and re-renders,
\* lastStateChange.current changes only in a step that changes the queued
\* mode to a different value.
C21_StampOnlyOnChange ==
    [][lastStateChange' # lastStateChange => appState' # appState]_vars

\* C22: in every reachable state a mode of ZOOM comes with a non-empty photo
\* collection, in the queued state, in App's last render and in PhotoCloud's
\* last render alike, so that a run of the effect under ZOOM selects a valid
\* index.
C22_ZoomHasPhotos ==
    /\ appState = ZOOM => photos > 0
    /\ rendered.appState = ZOOM => rendered.photos > 0
    /\ cloudRendered.appState = ZOOM => cloudRendered.photos > 0
    /\ (IsPick /\ pick.to.appState = ZOOM)
           => pick.after \in RandomIndex(pick.to.photos)

\* C22 witness: a PINCH has entered ZOOM and the effect of the render that
\* showed it has selected a photo.
C22_Witness ==
    /\ appState = ZOOM /\ photos > 0
    /\ IsPick /\ pick.to.appState = ZOOM /\ pick.from.appState = SCATTERED
    /\ activePhotoIndex = pick.after /\ activePhotoIndex # NoActivePhoto

\* What the last run of Ornaments' useFrame was.
IsOrnFrame == orn.op = "frame"

\* C23: in each frame the new value of the damped buffer is its previous
\* value damped toward the tree position at rate 12 if the mode is TREE and
\* toward the scatter position at rate 2 otherwise, over deltaTime, whatever
\* the jitter; the jitter is added to the emitted position only.
C23_BufferIgnoresJitter ==
    IsOrnFrame =>
        LET target == IF orn.mode = TREE THEN layout.tree ELSE layout.scatter
            rate == IF orn.mode = TREE THEN LambdaTree ELSE LambdaScatter
        IN  /\ currentPositions = damp(orn.prev, target, rate, orn.delta)
            /\ emitted = currentPositions + orn.noise

\* C23 witness: a second frame in a row toward the scatter position moved the
\* buffer and emitted it with a jitter.
C23_Witness ==
    /\ IsOrnFrame /\ orn.mode = SCATTERED /\ orn.noise # 0
    /\ run.frames >= 2
    /\ currentPositions # orn.prev
    /\ emitted # currentPositions

\* The particle's buffer is where one step of the whole time since the
\* target last changed would have put it, however that time was split into
\* frames; it is no farther from the target than at the start and on the
\* target once the distance has been halved DistanceBits times.
DistanceBits == 14
ParticleSplitInvariant ==
    run.frames > 0 =>
        /\ currentPositions
               = damp(run.start, run.target, run.lambda, run.elapsed)
        /\ Abs(currentPositions - run.target) <= Abs(run.start - run.target)
        /\ HalfLives(run.lambda, run.elapsed) >= DistanceBits
               => currentPositions = run.target

\* The same of the photo's coordinate, to within PhotoSlack thousandths.
PhotoSlack == 5
PhotoSplitInvariant ==
    photoRun.frames > 0 =>
        Abs(photoPos - easingDamp(photoRun.start, photoRun.startVel,
                                  photoRun.target, photoRun.smoothTime,
                                  photoRun.elapsed).value) <= PhotoSlack

====
